---- MODULE Spec2Model ----
(***************************************************************************)
(* Model of the notebook Lab9_Part2.1.ipynb: the kernel's global namespace, *)
(* the code cells as operations on it, the two functions the cells define   *)
(* (get_secret, openai_gpt_help) and the two external services they call    *)
(* (the secret store and the completion endpoint), whose answers are drawn  *)
(* nondeterministically from small sets.                                    *)
(***************************************************************************)
EXTENDS Integers, Sequences, FiniteSets, TLC

VARIABLES
    globals,      \* the kernel's global namespace: bound name -> value
    pc,           \* index of the next queued code cell of the run, 0 when idle
    runEnd,       \* index of the last code cell queued by the current run
    runs,         \* number of runs started so far
    runFailed,    \* a cell of the current run has raised
    runEmitted,   \* what the current run has written to the output areas
    last,         \* the most recent cell execution: which cell, what it raised
    secretCall,   \* the most recent invocation of get_secret
    calls,        \* the invocations of openai_gpt_help so far, newest last
    resolved,     \* credentials extracted so far from a bundle under 'api_key'
    returned      \* texts the completion endpoint has returned so far

vars == <<globals, pc, runEnd, runs, runFailed, runEmitted, last, secretCall,
          calls, resolved, returned>>

----------------------------------------------------------------------------
(* Bounds *)

\* number of runs (Run All, Run All Below, Run Cell, direct calls) explored
MaxRuns == 3

----------------------------------------------------------------------------
(* The code cells, in notebook order *)

PipCell == 1
ImportsCell == 2
GetSecretCell == 3
ClientCell == 4
DfCell == 5
DataPromptCell == 6
GptHelpCell == 7
RequestCell == 8
DisplayCell == 9
NumCells == DisplayCell
\* not a cell of the notebook: a direct call openai_gpt_help(p) from a scratch cell
DirectCall == NumCells + 1

\* names the imports cell binds
ImportedNames == {"boto3", "json", "display", "Image", "Markdown", "OpenAI", "pd", "pprint"}

----------------------------------------------------------------------------
(* Errors *)

NoError == [type |-> "", detail |-> ""]
Err(t, d) == [type |-> t, detail |-> d]
NameError(n) == Err("NameError", n)
KeyError(k) == Err("KeyError", k)

\* what the secret store can raise: an authorization error (a botocore
\* ClientError) and a transport error
StoreErrors == {Err("ClientError", "AccessDeniedException"),
                Err("EndpointConnectionError", "secretsmanager.us-east-1")}

\* what the completion endpoint can raise
EndpointErrors == {Err("AuthenticationError", "401"),
                   Err("RateLimitError", "429"),
                   Err("BadRequestError", "400")}

----------------------------------------------------------------------------
(* JSON text, as the token sequence of its characters' lexemes, and json.loads *)

Tok(t, v) == [t |-> t, v |-> v]
LBrace == Tok("{", "")
RBrace == Tok("}", "")
Colon == Tok(":", "")
Comma == Tok(",", "")
Str(v) == Tok("str", v)

EmptyMap == [k \in {} |-> ""]

\* the value json.loads returns, or the error it raises
Decoded(kind, map, str) == [kind |-> kind, map |-> map, str |-> str]
DecodeError == Decoded("JSONDecodeError", EmptyMap, "")

\* members of an object from position i: "key" : "value" ( , "key" : "value" )* }
\* a repeated key keeps the last value, as Python's dict does
RECURSIVE ParseMembers(_, _, _)
ParseMembers(s, i, acc) ==
    IF i + 3 > Len(s) THEN DecodeError
    ELSE IF ~(s[i].t = "str" /\ s[i + 1] = Colon /\ s[i + 2].t = "str") THEN DecodeError
    ELSE LET acc2 == (s[i].v :> s[i + 2].v) @@ acc
         IN  IF s[i + 3] = RBrace
             THEN IF i + 3 = Len(s) THEN Decoded("dict", acc2, "") ELSE DecodeError
             ELSE IF s[i + 3] = Comma THEN ParseMembers(s, i + 4, acc2)
             ELSE DecodeError

json_loads(s) ==
    IF Len(s) = 0 THEN DecodeError
    ELSE IF s[1].t = "str"
         THEN IF Len(s) = 1 THEN Decoded("str", EmptyMap, s[1].v) ELSE DecodeError
    ELSE IF s[1] = LBrace
         THEN IF Len(s) = 2 /\ s[2] = RBrace THEN Decoded("dict", EmptyMap, "")
              ELSE ParseMembers(s, 2, EmptyMap)
    ELSE DecodeError

\* the SecretString values the secret store may hold
SecretStrings ==
    { <<LBrace, Str("api_key"), Colon, Str("sk-A"), RBrace>>,
      <<LBrace, Str("api_key"), Colon, Str("sk-B"), Comma,
        Str("org"), Colon, Str("o1"), RBrace>>,
      <<LBrace, Str("org"), Colon, Str("sk-B"), Comma,
        Str("api_key"), Colon, Str("sk-A"), RBrace>>,
      <<LBrace, Str("api_key"), Colon, Str("sk-A"), Comma,
        Str("api_key"), Colon, Str("sk-B"), RBrace>>,
      <<LBrace, Str("key"), Colon, Str("sk-A"), RBrace>>,
      <<LBrace, RBrace>>,
      <<Str("sk-A")>>,
      <<LBrace, Str("api_key"), Colon>> }

\* what a get_secret_value call can do: raise, or answer with a response that
\* holds a SecretString or (a binary secret) none
StoreOutcome(kind, err, hasString, text) ==
    [kind |-> kind, err |-> err, hasString |-> hasString, SecretString |-> text]
StoreOutcomes ==
    {StoreOutcome("error", e, FALSE, <<>>) : e \in StoreErrors}
    \cup {StoreOutcome("response", NoError, FALSE, <<>>)}
    \cup {StoreOutcome("response", NoError, TRUE, s) : s \in SecretStrings}
NoStoreOutcome == StoreOutcome("none", NoError, FALSE, <<>>)

----------------------------------------------------------------------------
(* The completion endpoint's answers *)

Usage(p, c, t) == [prompt_tokens |-> p, completion_tokens |-> c, total_tokens |-> t]
NoUsage == Usage(-1, -1, -1)

\* the text of the data_prompt cell's f-string (it has no replacement fields)
DataPrompt == "How has U.S. cryptocurrency policy evolved ..."
Prompts == {DataPrompt, "Say hello."}

\* a response: choices[0].message.content and usage
Payload(text, usage) == [text |-> text, usage |-> usage]
Payloads == {Payload("Hello!", Usage(5, 2, 7)),
             Payload("The evolution of U.S. cryptocurrency policy ...",
                     Usage(340, 666, 1006)),
             Payload("Hello!", Usage(5, 2, 8))}
NoPayload == Payload("", NoUsage)

EndpointOutcome(kind, err, payload) == [kind |-> kind, err |-> err, payload |-> payload]
EndpointOutcomes ==
    {EndpointOutcome("error", e, NoPayload) : e \in EndpointErrors}
    \cup {EndpointOutcome("response", NoError, p) : p \in Payloads}
NoEndpointOutcome == EndpointOutcome("none", NoError, NoPayload)

\* what a cell writes to its output area
PprintItem(text, usage) == [kind |-> "pprint", text |-> text, usage |-> usage]
MarkdownItem(text) == [kind |-> "markdown", text |-> text, usage |-> NoUsage]
StdoutItem(text) == [kind |-> "stdout", text |-> text, usage |-> NoUsage]

----------------------------------------------------------------------------
(* The global namespace *)

Bound(g, n) == n \in DOMAIN g
Bind(g, n, v) == (n :> v) @@ g

\* the object OpenAI(api_key=...) constructs
OpenAI(api_key) == [api_key |-> api_key]

----------------------------------------------------------------------------
(* get_secret(secret_name), run in namespace g against a secret store that *)
(* answers the get_secret_value call with outcome o                        *)

SecretResult(raised, ret, storeCalls, SecretId, o) ==
    [raised |-> raised, ret |-> ret, storeCalls |-> storeCalls,
     SecretId |-> SecretId, outcome |-> o]
NoSecretCall == SecretResult(NoError, DecodeError, 0, "", NoStoreOutcome)

\* try: ... except ClientError as e: raise e
\* the handler's class expression is evaluated when an exception reaches it
ExceptClientError(g, e) ==
    IF ~Bound(g, "ClientError") THEN NameError("ClientError")
    ELSE e

\* mutant: a secret fetched before is served from a cache, without a call
get_secret_cached(secret_name, g, o) ==
    IF ~Bound(g, "boto3")
    THEN SecretResult(NameError("boto3"), DecodeError, 0, secret_name, NoStoreOutcome)
    ELSE IF secretCall.SecretId = secret_name /\ secretCall.raised = NoError
    THEN SecretResult(NoError, secretCall.ret, 0, secret_name, secretCall.outcome)
    ELSE IF o.kind = "error"
    THEN SecretResult(ExceptClientError(g, o.err), DecodeError, 1, secret_name, o)
    ELSE IF ~o.hasString
    THEN SecretResult(KeyError("SecretString"), DecodeError, 1, secret_name, o)
    ELSE IF ~Bound(g, "json")
    THEN SecretResult(NameError("json"), DecodeError, 1, secret_name, o)
    ELSE LET d == json_loads(o.SecretString)
         IN  IF d.kind = "JSONDecodeError"
             THEN SecretResult(Err("JSONDecodeError", ""), DecodeError, 1, secret_name, o)
             ELSE SecretResult(NoError, d, 1, secret_name, o)

get_secret(secret_name, g, o) ==
    IF ~Bound(g, "boto3")
    THEN SecretResult(NameError("boto3"), DecodeError, 0, secret_name, NoStoreOutcome)
    ELSE IF o.kind = "error"
    THEN SecretResult(ExceptClientError(g, o.err), DecodeError, 1, secret_name, o)
    ELSE IF ~o.hasString
    THEN SecretResult(KeyError("SecretString"), DecodeError, 1, secret_name, o)
    ELSE IF ~Bound(g, "json")
    THEN SecretResult(NameError("json"), DecodeError, 1, secret_name, o)
    ELSE LET d == json_loads(o.SecretString)
         IN  IF d.kind = "JSONDecodeError"
             THEN SecretResult(Err("JSONDecodeError", ""), DecodeError, 1, secret_name, o)
             ELSE SecretResult(NoError, d, 1, secret_name, o)

\* bundle[key] on what get_secret returned: the value, or the error raised
Subscripted(raised, value) == [raised |-> raised, value |-> value]

\* mutant: another key of the bundle is read
SubscriptOtherKey(d, key) ==
    IF d.kind # "dict"
    THEN Subscripted(Err("TypeError", "string indices must be integers"), "")
    ELSE IF key \notin DOMAIN d.map THEN Subscripted(KeyError(key), "")
    ELSE IF DOMAIN d.map = {key} THEN Subscripted(NoError, d.map[key])
    ELSE Subscripted(NoError, d.map[CHOOSE k \in DOMAIN d.map : k # key])

\* mutant: bundle.get(key), which yields None for a missing key
SubscriptGet(d, key) ==
    IF d.kind # "dict"
    THEN Subscripted(Err("AttributeError", "'str' object has no attribute 'get'"), "")
    ELSE IF key \notin DOMAIN d.map THEN Subscripted(NoError, "None")
    ELSE Subscripted(NoError, d.map[key])

Subscript(d, key) ==
    IF d.kind # "dict"
    THEN Subscripted(Err("TypeError", "string indices must be integers"), "")
    ELSE IF key \notin DOMAIN d.map THEN Subscripted(KeyError(key), "")
    ELSE Subscripted(NoError, d.map[key])

----------------------------------------------------------------------------
(* openai_gpt_help(prompt), run in namespace g against a completion        *)
(* endpoint that answers the request with outcome o                        *)

Request(model, messages, temperature, api_key) ==
    [model |-> model, messages |-> messages, temperature |-> temperature,
     api_key |-> api_key]

\* ret is the tuple of values the call returns: empty when it raises
CallResult(prompt, raised, ret, printed, requests, o) ==
    [prompt |-> prompt, raised |-> raised, ret |-> ret, printed |-> printed,
     requests |-> requests, outcome |-> o]

\* response = client.chat.completions.create(model='gpt-4o', messages=messages,
\* temperature = 0): what it raises, the requests it sends, the answer it gets
Created(raised, requests, o) == [raised |-> raised, requests |-> requests, outcome |-> o]

\* mutant: a failed request is sent a second time
chat_completions_create_retry(g, messages, o) ==
    IF ~Bound(g, "client") THEN Created(NameError("client"), <<>>, NoEndpointOutcome)
    ELSE LET req == Request("gpt-4o", messages, 0, g["client"].api_key)
         IN  IF o.kind = "error" THEN Created(o.err, <<req, req>>, o)
             ELSE Created(NoError, <<req>>, o)

\* mutant: an endpoint error is caught and raised as another error
chat_completions_create_wrapped(g, messages, o) ==
    IF ~Bound(g, "client") THEN Created(NameError("client"), <<>>, NoEndpointOutcome)
    ELSE LET req == Request("gpt-4o", messages, 0, g["client"].api_key)
         IN  IF o.kind = "error"
             THEN Created(Err("RuntimeError", "completion failed"), <<req>>, o)
             ELSE Created(NoError, <<req>>, o)

\* mutant: without a client handle the request is sent through a client of
\* its own, built from no resolved credential
chat_completions_create_own_client(g, messages, o) ==
    LET key == IF Bound(g, "client") THEN g["client"].api_key ELSE "OPENAI_API_KEY"
        req == Request("gpt-4o", messages, 0, key)
    IN  IF o.kind = "error" THEN Created(o.err, <<req>>, o)
        ELSE Created(NoError, <<req>>, o)

\* mutant: the request samples at temperature 1 and carries a system message
chat_completions_create_sampled(g, messages, o) ==
    IF ~Bound(g, "client") THEN Created(NameError("client"), <<>>, NoEndpointOutcome)
    ELSE LET req == Request("gpt-4o",
                            <<[role |-> "system", content |-> "You are helpful."]>>
                                \o messages,
                            1, g["client"].api_key)
         IN  IF o.kind = "error" THEN Created(o.err, <<req>>, o)
             ELSE Created(NoError, <<req>>, o)

chat_completions_create(g, messages, o) ==
    IF ~Bound(g, "client") THEN Created(NameError("client"), <<>>, NoEndpointOutcome)
    ELSE LET req == Request("gpt-4o", messages, 0, g["client"].api_key)
         IN  IF o.kind = "error" THEN Created(o.err, <<req>>, o)
             ELSE Created(NoError, <<req>>, o)

\* pprint(f"Tokens used: {token_usage}"): what it raises, what it prints
Pprinted(raised, printed) == [raised |-> raised, printed |-> printed]

\* mutant: the usage is printed for the first result only
pprint_token_usage_once(g, token_usage) ==
    IF ~Bound(g, "pprint") THEN Pprinted(NameError("pprint"), <<>>)
    ELSE IF Bound(g, "gpt_result") THEN Pprinted(NoError, <<>>)
    ELSE Pprinted(NoError, <<PprintItem("Tokens used: ", token_usage)>>)

\* mutant: the total alone is printed
pprint_token_usage_total(g, token_usage) ==
    IF ~Bound(g, "pprint") THEN Pprinted(NameError("pprint"), <<>>)
    ELSE Pprinted(NoError,
                  <<PprintItem("Tokens used: ",
                               Usage(0, 0, token_usage.total_tokens))>>)

\* mutant: the total is printed as the completion count
pprint_token_usage_recount(g, token_usage) ==
    IF ~Bound(g, "pprint") THEN Pprinted(NameError("pprint"), <<>>)
    ELSE Pprinted(NoError,
                  <<PprintItem("Tokens used: ",
                               Usage(token_usage.prompt_tokens,
                                     token_usage.completion_tokens,
                                     token_usage.completion_tokens))>>)

pprint_token_usage(g, token_usage) ==
    IF ~Bound(g, "pprint") THEN Pprinted(NameError("pprint"), <<>>)
    ELSE Pprinted(NoError, <<PprintItem("Tokens used: ", token_usage)>>)

\* mutant: the 'Tokens used' line is printed in a finally block, so also when
\* the request has failed
openai_gpt_help_finally(prompt, g, o) ==
    LET messages == <<[role |-> "user", content |-> prompt]>>
        response == chat_completions_create(g, messages, o)
        token_usage == o.payload.usage
        p == pprint_token_usage(g, token_usage)
    IN  IF response.raised # NoError
        THEN CallResult(prompt, response.raised, <<>>, p.printed, response.requests,
                        response.outcome)
        ELSE IF p.raised # NoError
        THEN CallResult(prompt, p.raised, <<>>, <<>>, response.requests, o)
        ELSE CallResult(prompt, NoError, <<o.payload.text>>, p.printed,
                        response.requests, o)

openai_gpt_help(prompt, g, o) ==
    LET messages == <<[role |-> "user", content |-> prompt]>>
        response == chat_completions_create(g, messages, o)
    IN  IF response.raised # NoError
        THEN CallResult(prompt, response.raised, <<>>, <<>>, response.requests,
                        response.outcome)
        ELSE LET token_usage == o.payload.usage
                 p == pprint_token_usage(g, token_usage)
             IN  IF p.raised # NoError
                 THEN CallResult(prompt, p.raised, <<>>, <<>>, response.requests, o)
                 ELSE CallResult(prompt, NoError, <<o.payload.text>>, p.printed,
                                 response.requests, o)

\* mutant: the function declares client global and rebuilds it on every call
globals_after_openai_gpt_help_rebuilt(g) ==
    IF Bound(g, "client") THEN Bind(g, "client", OpenAI("OPENAI_API_KEY")) ELSE g

\* the global namespace once openai_gpt_help has run: messages, response and
\* token_usage are locals, and the function has no global statement
globals_after_openai_gpt_help(g) == g

----------------------------------------------------------------------------
(* Running cells. A run queues a contiguous range of code cells (Run All,   *)
(* Run All Below, Run Selected Cells); the kernel executes them in order    *)
(* and drops the rest of the queue when one raises.                         *)

Init ==
    /\ globals = [n \in {} |-> ""]
    /\ pc = 0
    /\ runEnd = 0
    /\ runs = 0
    /\ runFailed = FALSE
    /\ runEmitted = <<>>
    /\ last = [cell |-> 0, raised |-> NoError]
    /\ secretCall = NoSecretCall
    /\ calls = <<>>
    /\ resolved = {}
    /\ returned = {}

StartRun(s, e) ==
    /\ pc = 0
    /\ runs < MaxRuns
    /\ pc' = s
    /\ runEnd' = e
    /\ runs' = runs + 1
    /\ runFailed' = FALSE
    /\ runEmitted' = <<>>
    /\ UNCHANGED <<globals, last, secretCall, calls, resolved, returned>>

\* the cell queued after cell i, which raised err (NoError: it did not)
NextCell(i, err, end) == IF err # NoError \/ i >= end THEN 0 ELSE i + 1

\* cell i has run to its end or to the error it raised, having written items
Finish(i, err, items) ==
    /\ last' = [cell |-> i, raised |-> err]
    /\ runEmitted' = runEmitted \o items
    /\ runFailed' = (err # NoError)
    /\ pc' = NextCell(i, err, runEnd)
    /\ UNCHANGED <<runEnd, runs>>

\* pip install openai -q
RunPipCell ==
    /\ pc = PipCell
    /\ Finish(PipCell, NoError,
              <<StdoutItem("Note: you may need to restart the kernel to use updated packages.")>>)
    /\ UNCHANGED <<globals, secretCall, calls, resolved, returned>>

\* import boto3 ... from pprint import pprint
RunImportsCell ==
    /\ pc = ImportsCell
    /\ globals' = [n \in ImportedNames |-> "module"] @@ globals
    /\ Finish(ImportsCell, NoError, <<>>)
    /\ UNCHANGED <<secretCall, calls, resolved, returned>>

\* def get_secret(secret_name): ...
RunGetSecretCell ==
    /\ pc = GetSecretCell
    /\ globals' = Bind(globals, "get_secret", "function")
    /\ Finish(GetSecretCell, NoError, <<>>)
    /\ UNCHANGED <<secretCall, calls, resolved, returned>>

\* client = OpenAI(api_key= get_secret('openai')['api_key'])
RunClientCell ==
    /\ pc = ClientCell
    /\ IF ~Bound(globals, "OpenAI")
       THEN /\ Finish(ClientCell, NameError("OpenAI"), <<>>)
            /\ UNCHANGED <<globals, secretCall, resolved>>
       ELSE IF ~Bound(globals, "get_secret")
       THEN /\ Finish(ClientCell, NameError("get_secret"), <<>>)
            /\ UNCHANGED <<globals, secretCall, resolved>>
       ELSE \E o \in StoreOutcomes :
              LET r == get_secret("openai", globals, o)
                  k == Subscript(r.ret, "api_key")
                  e == IF r.raised # NoError THEN r.raised ELSE k.raised
              IN  /\ secretCall' = r
                  /\ IF e # NoError
                     THEN /\ Finish(ClientCell, e, <<>>)
                          /\ UNCHANGED <<globals, resolved>>
                     ELSE /\ globals' = Bind(globals, "client", OpenAI(k.value))
                          /\ resolved' = resolved \cup {k.value}
                          /\ Finish(ClientCell, NoError, <<>>)
    /\ UNCHANGED <<calls, returned>>

\* df = 1. Early Days (2009-2013): The Wild West Era ...   (not Python)
RunDfCell ==
    /\ pc = DfCell
    /\ Finish(DfCell, Err("SyntaxError", "invalid syntax"), <<>>)
    /\ UNCHANGED <<globals, secretCall, calls, resolved, returned>>

\* data_prompt = f"""How has U.S. cryptocurrency policy evolved ..."""
RunDataPromptCell ==
    /\ pc = DataPromptCell
    /\ globals' = Bind(globals, "data_prompt", DataPrompt)
    /\ Finish(DataPromptCell, NoError, <<>>)
    /\ UNCHANGED <<secretCall, calls, resolved, returned>>

\* def openai_gpt_help(prompt): ...
RunGptHelpCell ==
    /\ pc = GptHelpCell
    /\ globals' = Bind(globals, "openai_gpt_help", "function")
    /\ Finish(GptHelpCell, NoError, <<>>)
    /\ UNCHANGED <<secretCall, calls, resolved, returned>>

\* the texts the endpoint has returned once call r has been made
Received(r) == IF r.outcome.kind = "response" THEN {r.outcome.payload.text} ELSE {}

\* gpt_result = openai_gpt_help(prompt=data_prompt)
RunRequestCell ==
    /\ pc = RequestCell
    /\ IF ~Bound(globals, "openai_gpt_help")
       THEN /\ Finish(RequestCell, NameError("openai_gpt_help"), <<>>)
            /\ UNCHANGED <<globals, calls, returned>>
       ELSE IF ~Bound(globals, "data_prompt")
       THEN /\ Finish(RequestCell, NameError("data_prompt"), <<>>)
            /\ UNCHANGED <<globals, calls, returned>>
       ELSE \E o \in EndpointOutcomes :
              LET r == openai_gpt_help(globals["data_prompt"], globals, o)
              IN  /\ calls' = Append(calls, r)
                  /\ returned' = returned \cup Received(r)
                  /\ globals' = IF r.raised = NoError
                                THEN Bind(globals_after_openai_gpt_help(globals),
                                          "gpt_result", r.ret[1])
                                ELSE globals_after_openai_gpt_help(globals)
                  /\ Finish(RequestCell, r.raised, r.printed)
    /\ UNCHANGED <<secretCall, resolved>>

\* display(Markdown(gpt_result))
RunDisplayCell ==
    /\ pc = DisplayCell
    /\ IF ~Bound(globals, "display") THEN Finish(DisplayCell, NameError("display"), <<>>)
       ELSE IF ~Bound(globals, "Markdown")
       THEN Finish(DisplayCell, NameError("Markdown"), <<>>)
       ELSE IF ~Bound(globals, "gpt_result")
       THEN Finish(DisplayCell, NameError("gpt_result"), <<>>)
       ELSE Finish(DisplayCell, NoError, <<MarkdownItem(globals["gpt_result"])>>)
    /\ UNCHANGED <<globals, secretCall, calls, resolved, returned>>

\* openai_gpt_help(p) called directly, from a scratch cell run on its own
CallOpenaiGptHelp(p) ==
    /\ pc = 0
    /\ runs < MaxRuns
    /\ Bound(globals, "openai_gpt_help")
    /\ \E o \in EndpointOutcomes :
         LET r == openai_gpt_help(p, globals, o)
         IN  /\ calls' = Append(calls, r)
             /\ returned' = returned \cup Received(r)
             /\ last' = [cell |-> DirectCall, raised |-> r.raised]
             /\ runEmitted' = r.printed
             /\ runFailed' = (r.raised # NoError)
    /\ globals' = globals_after_openai_gpt_help(globals)
    /\ runs' = runs + 1
    /\ runEnd' = DirectCall
    /\ UNCHANGED <<pc, secretCall, resolved>>

Next ==
    \/ \E s \in 1..NumCells : \E e \in s..NumCells : StartRun(s, e)
    \/ RunPipCell
    \/ RunImportsCell
    \/ RunGetSecretCell
    \/ RunClientCell
    \/ RunDfCell
    \/ RunDataPromptCell
    \/ RunGptHelpCell
    \/ RunRequestCell
    \/ RunDisplayCell
    \/ \E p \in Prompts : CallOpenaiGptHelp(p)

Spec == Init /\ [][Next]_vars

----------------------------------------------------------------------------
(* Properties *)

Range(seq) == {seq[i] : i \in DOMAIN seq}

\* the most recent cell execution was the client cell and it got as far as
\* calling get_secret, so that secretCall is that call
InvokedGetSecret ==
    /\ last.cell = ClientCell
    /\ last.raised \notin {NameError("OpenAI"), NameError("get_secret")}

\* C1: when the secret store's get_secret_value call raises an error,
\* get_secret raises that same error, unwrapped and untranslated, and returns
\* no bundle.
C1_StoreErrorPropagatesUnchanged ==
    (InvokedGetSecret /\ secretCall.outcome.kind = "error")
        => /\ secretCall.raised = secretCall.outcome.err
           /\ secretCall.ret = DecodeError

\* the store answered the client cell's get_secret call with a SecretString
\* that decodes to a mapping
DecodedMapping ==
    /\ InvokedGetSecret
    /\ secretCall.outcome.kind = "response"
    /\ secretCall.outcome.hasString
    /\ json_loads(secretCall.outcome.SecretString).kind = "dict"
StoredMapping == json_loads(secretCall.outcome.SecretString).map

\* C2: for every secret store response whose SecretString decodes to a mapping
\* containing the key 'api_key', the client cell succeeds and the credential
\* passed to the OpenAI constructor is exactly the value stored under
\* 'api_key' in that mapping.
C2_CredentialIsStoredApiKey ==
    (DecodedMapping /\ "api_key" \in DOMAIN StoredMapping)
        => /\ last.raised = NoError
           /\ Bound(globals, "client")
           /\ globals["client"] = OpenAI(StoredMapping["api_key"])

\* the client was built from a bundle that holds another key before 'api_key'
C2_Witness ==
    /\ DecodedMapping
    /\ secretCall.outcome.SecretString =
         <<LBrace, Str("org"), Colon, Str("sk-B"), Comma,
           Str("api_key"), Colon, Str("sk-A"), RBrace>>
    /\ last.raised = NoError
    /\ globals["client"].api_key = "sk-A"

\* the bundle get_secret returned to the client cell lacks 'api_key'
MissingApiKey ==
    /\ InvokedGetSecret
    /\ secretCall.raised = NoError
    /\ secretCall.ret.kind = "dict"
    /\ "api_key" \notin DOMAIN secretCall.ret.map

\* C3: when the bundle returned by get_secret does not contain 'api_key',
\* extracting it raises KeyError('api_key') and the run stops there; the cell
\* that raised binds no client and issues no request, and nothing after it in
\* that run constructs a client or calls openai_gpt_help.
C3_MissingKeyIsFatal ==
    /\ [](MissingApiKey => last.raised = KeyError("api_key"))
    /\ [][(pc = ClientCell /\ MissingApiKey')
             => (runFailed' /\ pc' = 0 /\ globals' = globals /\ calls' = calls)]_vars
    /\ [][(MissingApiKey /\ runFailed /\ runs' = runs)
             => (globals' = globals /\ calls' = calls)]_vars

C3_Witness ==
    /\ MissingApiKey
    /\ runFailed
    /\ last.raised = KeyError("api_key")
    /\ ~Bound(globals, "client")

\* C4: every invocation of openai_gpt_help issues at most one request, and
\* exactly one whenever the client handle is bound, whether the endpoint
\* answers with a response or with an error.
C4_OneRequestPerInvocation ==
    \A c \in Range(calls) :
        /\ Len(c.requests) <= 1
        /\ c.raised # NameError("client") => Len(c.requests) = 1
        /\ c.outcome.kind \in {"response", "error"} => Len(c.requests) = 1

\* two invocations, one answered with an error and one with a response
C4_Witness ==
    /\ \E c \in Range(calls) : c.outcome.kind = "error" /\ Len(c.requests) = 1
    /\ \E c \in Range(calls) : c.outcome.kind = "response" /\ Len(c.requests) = 1

\* C5: when the completion endpoint answers a request with an error,
\* openai_gpt_help raises that same error and returns no text.
C5_EndpointErrorPropagatesUnchanged ==
    \A c \in Range(calls) :
        c.outcome.kind = "error"
            => /\ c.raised = c.outcome.err
               /\ c.ret = <<>>
               /\ c.printed = <<>>

C5_Witness ==
    /\ last.cell = RequestCell
    /\ last.raised = Err("RateLimitError", "429")
    /\ calls[Len(calls)].outcome.err = Err("RateLimitError", "429")

\* the endpoint answered call c with a response
Answered(c) == c.outcome.kind = "response"

\* the scenario of the specification: prompt "Say hello.", endpoint text
\* "Hello!", usage 5 / 2 / 7
IsScenario(c) ==
    /\ c.prompt = "Say hello."
    /\ c.outcome = EndpointOutcome("response", NoError,
                                   Payload("Hello!", Usage(5, 2, 7)))

\* C6, as claimed: openai_gpt_help returns the text together with the usage
\* counts of the response.
C6_ReturnsTextAndUsage ==
    \A c \in Range(calls) :
        Answered(c) => c.ret = <<c.outcome.payload.text, c.outcome.payload.usage>>

\* C6, amended: given an endpoint that returns text T with usage U,
\* openai_gpt_help returns exactly T, alone, and prints one 'Tokens used' line
\* that carries U; in the scenario it returns "Hello!" and prints 5 / 2 / 7.
C6_ReturnsTextPrintsUsage ==
    \A c \in Range(calls) :
        /\ Answered(c)
             => /\ c.raised = NoError
                /\ c.ret = <<c.outcome.payload.text>>
                /\ c.printed = <<PprintItem("Tokens used: ", c.outcome.payload.usage)>>
        /\ IsScenario(c)
             => /\ c.ret = <<"Hello!">>
                /\ Len(c.printed) = 1
                /\ c.printed[1].usage.prompt_tokens = 5
                /\ c.printed[1].usage.completion_tokens = 2
                /\ c.printed[1].usage.total_tokens = 7

C6_Witness ==
    \E c \in Range(calls) : IsScenario(c) /\ c.ret = <<"Hello!">>

\* C7: every request openai_gpt_help(prompt) sends carries exactly one
\* message, with role 'user' and the prompt as content, the model 'gpt-4o'
\* and temperature 0.
C7_RequestShape ==
    \A c \in Range(calls) : \A r \in Range(c.requests) :
        /\ r.messages = <<[role |-> "user", content |-> c.prompt]>>
        /\ r.model = "gpt-4o"
        /\ r.temperature = 0

C7_Witness ==
    \E c \in Range(calls) :
        /\ c.prompt = "Say hello."
        /\ Len(c.requests) = 1
        /\ c.requests[1].messages[1].content = "Say hello."

\* C8: no completion request is issued before the client handle has been
\* constructed from a credential resolved out of the secret store, and
\* neither the 'Tokens used' line nor the response text is displayed before
\* a request has returned the text and usage shown.
C8_StepsGateEachOther ==
    /\ \A c \in Range(calls) : \A r \in Range(c.requests) :
          /\ Bound(globals, "client")
          /\ r.api_key \in resolved
    /\ Bound(globals, "client") => globals["client"].api_key \in resolved
    /\ Bound(globals, "gpt_result") => globals["gpt_result"] \in returned
    /\ \A i \in DOMAIN runEmitted :
          /\ runEmitted[i].kind = "markdown" => runEmitted[i].text \in returned
          /\ runEmitted[i].kind = "pprint"
               => \E c \in Range(calls) :
                     Answered(c) /\ c.outcome.payload.usage = runEmitted[i].usage

\* a run that requested and displayed
C8_Witness ==
    /\ Len(runEmitted) = 2
    /\ runEmitted[1].kind = "pprint"
    /\ runEmitted[2].kind = "markdown"
    /\ last.cell = DisplayCell

\* C9: the cell that raises writes nothing to the output, the run stops at
\* it, and nothing is written for the rest of that run.
C9_NoOutputOnceFailed ==
    /\ [](runFailed => pc = 0)
    /\ [][(runFailed' /\ runs' = runs) => runEmitted' = runEmitted]_vars
    /\ [][(runFailed' /\ runs' # runs) => runEmitted' = <<>>]_vars

\* the endpoint failed a request of a run that had written output already,
\* in a kernel that still holds the text of an earlier request
C9_Witness ==
    /\ runFailed
    /\ last.cell = RequestCell
    /\ Len(calls) > 0
    /\ calls[Len(calls)].outcome.kind = "error"
    /\ Bound(globals, "gpt_result")
    /\ pc = 0
    /\ runEnd = DisplayCell

\* C10: two invocations of openai_gpt_help with the same prompt that the
\* endpoint answers with the same payload return the same text and print the
\* same usage.
C10_SameInputsSameResult ==
    \A i, j \in DOMAIN calls :
        (/\ calls[i].prompt = calls[j].prompt
         /\ Answered(calls[i])
         /\ calls[i].outcome = calls[j].outcome)
            => /\ calls[i].raised = calls[j].raised
               /\ calls[i].ret = calls[j].ret
               /\ calls[i].printed = calls[j].printed

\* two such invocations, the second made in a namespace the first has changed
C10_Witness ==
    /\ Len(calls) >= 2
    /\ calls[1].prompt = calls[2].prompt
    /\ Answered(calls[1])
    /\ calls[1].outcome = calls[2].outcome
    /\ calls[1].ret = calls[2].ret
    /\ Bound(globals, "gpt_result")

\* total token count = prompt token count + completion token count
Adds(u) == u.total_tokens = u.prompt_tokens + u.completion_tokens

\* C11, as claimed: every usage record openai_gpt_help surfaces from a
\* completion response has a total equal to its prompt count plus its
\* completion count.
C11_SurfacedUsageAdds ==
    \A c \in Range(calls) : \A i \in DOMAIN c.printed :
        c.printed[i].kind = "pprint" => Adds(c.printed[i].usage)

\* C11, amended: openai_gpt_help surfaces the usage record of the response as
\* the endpoint sent it, so the surfaced total equals prompt plus completion
\* exactly when the endpoint's record does; the function neither computes
\* nor checks the total.
C11_SurfacedUsageAddsIfEndpointsDoes ==
    \A c \in Range(calls) : \A i \in DOMAIN c.printed :
        c.printed[i].kind = "pprint"
            => /\ Answered(c)
               /\ Adds(c.printed[i].usage) <=> Adds(c.outcome.payload.usage)

\* both kinds of record have been surfaced: one that adds up, one that does not
C11_Witness ==
    /\ \E c \in Range(calls) :
          Len(c.printed) = 1 /\ c.printed[1].usage = Usage(340, 666, 1006)
    /\ \E c \in Range(calls) :
          Len(c.printed) = 1 /\ c.printed[1].usage = Usage(5, 2, 8)

\* C12: every invocation of get_secret makes exactly one call to the secret
\* store, for the secret name it was given, also when that name was fetched
\* before, and what it returns is decoded from that call's own response.
C12_EveryInvocationFetches ==
    /\ [](InvokedGetSecret
            => /\ secretCall.storeCalls = 1
               /\ secretCall.SecretId = "openai"
               /\ secretCall.outcome.kind \in {"response", "error"}
               /\ secretCall.raised = NoError
                    => /\ secretCall.outcome.kind = "response"
                       /\ secretCall.outcome.hasString
                       /\ secretCall.ret = json_loads(secretCall.outcome.SecretString))
    /\ [][(pc = ClientCell /\ InvokedGetSecret')
            => \E o \in StoreOutcomes :
                  /\ secretCall'.outcome = o
                  /\ secretCall'.storeCalls = 1
                  /\ (o.kind = "response" /\ o.hasString
                        /\ json_loads(o.SecretString).kind # "JSONDecodeError")
                       => secretCall'.ret = json_loads(o.SecretString)]_vars

\* a second successful fetch of the same name returned another bundle than
\* the first, and the client carries the second one's credential
C12_Witness ==
    /\ InvokedGetSecret
    /\ secretCall.raised = NoError
    /\ secretCall.storeCalls = 1
    /\ resolved = {"sk-A", "sk-B"}
    /\ Bound(globals, "client")
    /\ globals["client"].api_key = "sk-B"
    /\ secretCall.ret.map["api_key"] = "sk-B"

\* C13: once the client handle is bound, only the client initialization
\* cell binds it: no invocation of openai_gpt_help and no other step changes
\* the handle or the credential it carries, however many requests are made.
C13_ClientHandleReadOnly ==
    /\ [][(Bound(globals, "client") /\ pc # ClientCell)
             => /\ Bound(globals', "client")
                /\ globals'["client"] = globals["client"]]_vars
    /\ [][(~Bound(globals, "client") /\ Bound(globals', "client"))
             => pc = ClientCell]_vars

\* two requests made, the first answered, all with the one handle
C13_Witness ==
    /\ Len(calls) >= 2
    /\ \A c \in Range(calls) :
          /\ Len(c.requests) = 1
          /\ c.requests[1].api_key = globals["client"].api_key
    /\ Answered(calls[1])
    /\ Bound(globals, "gpt_result")
    /\ Cardinality(resolved) = 1

\* the current run was queued from the first code cell to the last (Run All):
\* only the first cell, pip install, writes to stdout
TopToBottom ==
    /\ runEnd = NumCells
    /\ Len(runEmitted) > 0
    /\ runEmitted[1].kind = "stdout"

\* the secret store answered the run's get_secret call with a bundle that
\* holds 'api_key'
StoreGaveApiKey ==
    /\ secretCall.raised = NoError
    /\ secretCall.ret.kind = "dict"
    /\ "api_key" \in DOMAIN secretCall.ret.map

\* C14: a top-to-bottom run in which the secret store returns a bundle with
\* 'api_key' and the endpoint does not fail the request ends at the display
\* cell, with the returned text rendered: the run does not stop at a cell
\* between the client cell and the request cell.
C14_RunAllReachesDisplay ==
    (/\ TopToBottom
     /\ pc = 0
     /\ StoreGaveApiKey
     /\ ~(last.cell = RequestCell /\ runFailed))
        => /\ last = [cell |-> DisplayCell, raised |-> NoError]
           /\ Bound(globals, "gpt_result")
           /\ runEmitted[Len(runEmitted)] = MarkdownItem(globals["gpt_result"])

====
